---- MODULE Spec2Model ----
(***************************************************************************)
(* The SQL history-v2 store of cadence (sqlHistoryV2Manager): the          *)
(* history_node and history_tree tables of one tree, and the operations    *)
(* AppendHistoryNodes, ReadHistoryBranch, ForkHistoryBranch,               *)
(* CompleteForkBranch, DeleteHistoryBranch and GetHistoryTree.             *)
(*                                                                         *)
(* Every statement against the database is atomic, and so is every         *)
(* txExecute block.  DeleteHistoryBranch reads the tree outside its        *)
(* transaction, so it is two steps; every other operation is one step.     *)
(* All rows belong to one tree: every filter of the code carries the       *)
(* treeID, so trees do not interact.                                       *)
(***************************************************************************)
EXTENDS Integers, Sequences, FiniteSets, TLC

\* ------------------------------------------------------------------ bounds
MaxBranch     == 3  \* branch ids handed out under Spec: 1..MaxBranch
MaxNodeID     == 2  \* node ids 1..MaxNodeID
MaxTreeTxnID  == 1  \* transaction ids 1..MaxTreeTxnID under Spec
MaxRows       == 2  \* rows of history_node under Spec
MaxTxnBranch  == 2  \* branch ids handed out under SpecTxn
MaxTxnRows    == 2  \* rows of history_node under SpecTxn
MaxTxnID      == 2  \* transaction ids 1..MaxTxnID under SpecTxn and SpecPage
MaxPageNodeID == 3  \* node ids 1..MaxPageNodeID of the stores of SpecPage
MaxPageSize   == 3  \* page sizes 1..MaxPageSize of a paged read
MaxFaultBranch == 2 \* branch ids handed out under SpecFault
MaxFaultRows  == 3  \* rows of history_node under SpecFault
MaxMapRun     == 2  \* run ids 1..MaxMapRun of the executions of SpecMaps
MaxMapKey     == 2  \* map keys 1..MaxMapKey of an info map under SpecMaps
MaxSelected   == 3  \* rows a select hands to the loop of a read under SpecRows

BranchIDs   == 1..MaxBranch
NodeIDs     == 1..MaxNodeID
TreeTxnIDs  == 1..MaxTreeTxnID
TxnIDs      == 1..MaxTxnID
ForkNodeIDs == 1..(MaxNodeID + 1)
PageNodeIDs == 1..MaxPageNodeID
PageSizes   == 1..MaxPageSize

\* Event blobs are opaque to the store.  Under SpecTxn a caller writes one of
\* two blobs; under Spec and SpecPage the blob names the row it is written to.
Blobs == {"e1", "e2"}
EventsOf(branchID, nodeID, txnID) == <<"e", branchID, nodeID, txnID>>

VARIABLES
  history_node,  \* the history_node table: rows [branchID, nodeID, txnID, data]
  history_tree,  \* the history_tree table: rows [branchID, inProgress, ancestors]
  branchInfos,   \* the branch descriptors the callers hold, by branch id
  del,           \* the DeleteHistoryBranch call between its read and its transaction:
                 \* its locals, and who has inserted a branch row since its
                 \* read: "fork" (a fork, and maybe appends too), "append"
                 \* (appends with IsNewBranch only) or "none"
  last,          \* the last call that returned, and its error
  pager,         \* a client reading one branch page by page
  reader,        \* a ReadHistoryBranch call inside its loop over the selected rows
  execution_maps \* an info map table: rows [run, key, data, data_encoding]

vars == <<history_node, history_tree, branchInfos, del, last, pager, reader,
          execution_maps>>

\* ------------------------------------------------------------- ancestors
\* shared.HistoryBranchRange; endNodeID 0 stands for the nil pointer.
HistoryBranchRange(b, begin, end) ==
  [branchID |-> b, beginNodeID |-> begin, endNodeID |-> end]

\* json.Marshal of the chain: the stored column is another representation.
serializeAncestors(ans) ==
  [i \in 1..Len(ans) |-> <<ans[i].branchID, ans[i].beginNodeID, ans[i].endNodeID>>]

deserializeAncestors(jsonStr) ==
  [i \in 1..Len(jsonStr) |-> HistoryBranchRange(jsonStr[i][1], jsonStr[i][2], jsonStr[i][3])]

\* p.GetBeginNodeID: the end of the last ancestor, or 1.
GetBeginNodeID(ancestors) ==
  IF Len(ancestors) = 0 THEN 1 ELSE ancestors[Len(ancestors)].endNodeID

\* --------------------------------------------------------- the two tables
NodeKey(row) == <<row.branchID, row.nodeID, row.txnID>>

\* INSERT INTO history_node: the primary key is (tree, branch, node, txn).
InsertIntoHistoryNode(table, row) ==
  IF \E r \in table : NodeKey(r) = NodeKey(row)
  THEN [err |-> "ErrDupEntry", table |-> table]
  ELSE [err |-> "nil", table |-> table \cup {row}]

\* DELETE FROM history_node WHERE branch_id = ? AND node_id >= ?
DeleteFromHistoryNode(table, branchID, minNodeID) ==
  {r \in table : ~(r.branchID = branchID /\ r.nodeID >= minNodeID)}

\* ORDER BY node_id ASC, txn_id DESC
RowBefore(r1, r2) ==
  \/ r1.nodeID < r2.nodeID
  \/ r1.nodeID = r2.nodeID /\ r1.txnID >= r2.txnID

RECURSIVE OrderRows(_)
OrderRows(S) ==
  IF S = {} THEN <<>>
  ELSE LET first == CHOOSE r \in S : \A r2 \in S : RowBefore(r, r2)
       IN <<first>> \o OrderRows(S \ {first})

\* SELECT ... WHERE branch_id = ? AND node_id >= ? AND node_id < ?
\* ORDER BY ... LIMIT pageSize
SelectFromHistoryNode(table, branchID, minNodeID, maxNodeID, pageSize) ==
  LET hit == {r \in table : /\ r.branchID = branchID
                            /\ r.nodeID >= minNodeID
                            /\ r.nodeID < maxNodeID}
      all == OrderRows(hit)
  IN SubSeq(all, 1, IF Len(all) < pageSize THEN Len(all) ELSE pageSize)

\* INSERT INTO history_tree: the primary key is (tree, branch).
InsertIntoHistoryTree(table, row) ==
  IF \E r \in table : r.branchID = row.branchID
  THEN [err |-> "ErrDupEntry", rowsAffected |-> 0, table |-> table]
  ELSE [err |-> "nil", rowsAffected |-> 1, table |-> table \cup {row}]

\* UPDATE history_tree SET in_progress = ? WHERE branch_id = ?
\* clientFoundRows makes RowsAffected count the rows matched.
UpdateHistoryTree(table, branchID, inProgress) ==
  [rowsAffected |-> Cardinality({r \in table : r.branchID = branchID}),
   table |-> {IF r.branchID = branchID
              THEN [r EXCEPT !.inProgress = inProgress] ELSE r : r \in table}]

\* DELETE FROM history_tree WHERE branch_id = ?
DeleteFromHistoryTree(table, branchID) ==
  [rowsAffected |-> Cardinality({r \in table : r.branchID = branchID}),
   table |-> {r \in table : r.branchID # branchID}]

\* ------------------------------------------------------ AppendHistoryNodes
\* Mutant: the node id is tested against the first node id of a tree.
appendsToAncestors_root(nodeID, beginNodeID) == nodeID < 1

\* Mutant: the begin node itself is refused too.
appendsToAncestors_le(nodeID, beginNodeID) == nodeID <= beginNodeID

\* The precondition test of the request's nodeID.
appendsToAncestors(nodeID, beginNodeID) == nodeID < beginNodeID

\* Mutant: the row is keyed by the last ancestor when there is one.
nodeRowOf_ancestor(branchID, ancestors, nodeID, txnID, data) ==
  [branchID |-> IF Len(ancestors) = 0 THEN branchID
                ELSE ancestors[Len(ancestors)].branchID,
   nodeID |-> nodeID, txnID |-> txnID, data |-> data]

\* sqldb.HistoryNodeRow built from the request.
nodeRowOf(branchID, ancestors, nodeID, txnID, data) ==
  [branchID |-> branchID, nodeID |-> nodeID, txnID |-> txnID, data |-> data]

\* sqldb.HistoryTreeRow built from the request when IsNewBranch is set.
treeRowOf(branchID, ancestors) ==
  [branchID |-> branchID, inProgress |-> FALSE,
   ancestors |-> serializeAncestors(ancestors)]

\* Mutant: a duplicate key is reported as any other failure of the insert.
insertNodeError_internal(err) ==
  IF err = "nil" THEN "nil" ELSE "InternalServiceError"

\* The error of the plain insert: a duplicate key is a ConditionFailedError.
insertNodeError(err) ==
  IF err = "nil" THEN "nil"
  ELSE IF err = "ErrDupEntry" THEN "ConditionFailedError"
  ELSE "InternalServiceError"

\* Mutant: the node insert stays when the tree insert fails.
appendNewBranchTx_noRollback(nodeT, treeT, nodeRow, treeRow) ==
  LET n == InsertIntoHistoryNode(nodeT, nodeRow)
      t == InsertIntoHistoryTree(treeT, treeRow)
  IN IF n.err # "nil"
     THEN [err |-> n.err, history_node |-> nodeT, history_tree |-> treeT]
     ELSE IF t.err # "nil"
     THEN [err |-> t.err, history_node |-> n.table, history_tree |-> treeT]
     ELSE IF t.rowsAffected # 1
     THEN [err |-> "error", history_node |-> n.table, history_tree |-> treeT]
     ELSE [err |-> "nil", history_node |-> n.table, history_tree |-> t.table]

\* The transaction of the IsNewBranch path: node insert, then tree insert;
\* any error rolls both back and is returned as it is.
appendNewBranchTx(nodeT, treeT, nodeRow, treeRow) ==
  LET n == InsertIntoHistoryNode(nodeT, nodeRow)
      t == InsertIntoHistoryTree(treeT, treeRow)
  IN IF n.err # "nil"
     THEN [err |-> n.err, history_node |-> nodeT, history_tree |-> treeT]
     ELSE IF t.err # "nil"
     THEN [err |-> t.err, history_node |-> nodeT, history_tree |-> treeT]
     ELSE IF t.rowsAffected # 1
     THEN [err |-> "error", history_node |-> nodeT, history_tree |-> treeT]
     ELSE [err |-> "nil", history_node |-> n.table, history_tree |-> t.table]

AppendHistoryNodes(nodeT, treeT, branchID, ancestors, nodeID, txnID, data, isNewBranch) ==
  LET beginNodeID == GetBeginNodeID(ancestors)
      nodeRow == nodeRowOf(branchID, ancestors, nodeID, txnID, data)
  IN IF appendsToAncestors(nodeID, beginNodeID)
     THEN [err |-> "InvalidPersistenceRequestError",
           history_node |-> nodeT, history_tree |-> treeT]
     ELSE IF isNewBranch
     THEN appendNewBranchTx(nodeT, treeT, nodeRow, treeRowOf(branchID, ancestors))
     ELSE LET n == InsertIntoHistoryNode(nodeT, nodeRow)
          IN [err |-> insertNodeError(n.err),
              history_node |-> n.table, history_tree |-> treeT]

\* ------------------------------------------------------- ReadHistoryBranch
\* The page token: the decimal digits of the last node id.
RECURSIVE serializePageToken(_)
serializePageToken(offset) ==
  IF offset < 10 THEN <<offset>>
  ELSE Append(serializePageToken(offset \div 10), offset % 10)

RECURSIVE tokenValue(_, _)
tokenValue(token, i) ==
  IF i = 0 THEN 0 ELSE 10 * tokenValue(token, i - 1) + token[i]

deserializePageToken(token) ==
  IF \A i \in 1..Len(token) : token[i] \in 0..9
  THEN [err |-> "nil", offset |-> tokenValue(token, Len(token))]
  ELSE [err |-> "error", offset |-> 0]

\* Mutant: a row of the node just read replaces the entry read before it.
RECURSIVE readRows_keepLast(_, _, _, _, _)
readRows_keepLast(rows, i, lastNodeID, lastTxnID, history) ==
  IF i > Len(rows)
  THEN [err |-> "nil", history |-> history, lastNodeID |-> lastNodeID]
  ELSE LET row == rows[i]
       IN IF row.nodeID < lastNodeID
          THEN [err |-> "InternalServiceError", history |-> <<>>, lastNodeID |-> lastNodeID]
          ELSE IF row.nodeID = lastNodeID
          THEN readRows_keepLast(rows, i + 1, lastNodeID, row.txnID,
                                 Append(SubSeq(history, 1, Len(history) - 1), row.data))
          ELSE readRows_keepLast(rows, i + 1, row.nodeID, row.txnID,
                                 Append(history, row.data))

\* Mutant: no row is skipped.
RECURSIVE readRows_all(_, _, _, _, _)
readRows_all(rows, i, lastNodeID, lastTxnID, history) ==
  IF i > Len(rows)
  THEN [err |-> "nil", history |-> history, lastNodeID |-> lastNodeID]
  ELSE readRows_all(rows, i + 1, rows[i].nodeID, rows[i].txnID,
                    Append(history, rows[i].data))

\* Mutant: a row with the transaction id of the last accepted row is skipped.
RECURSIVE readRows_skipEqual(_, _, _, _, _)
readRows_skipEqual(rows, i, lastNodeID, lastTxnID, history) ==
  IF i > Len(rows)
  THEN [err |-> "nil", history |-> history, lastNodeID |-> lastNodeID]
  ELSE LET row == rows[i]
       IN IF row.nodeID < lastNodeID
          THEN [err |-> "InternalServiceError", history |-> <<>>, lastNodeID |-> lastNodeID]
          ELSE IF row.nodeID = lastNodeID
          THEN IF row.txnID <= lastTxnID
               THEN readRows_skipEqual(rows, i + 1, lastNodeID, lastTxnID, history)
               ELSE [err |-> "InternalServiceError", history |-> <<>>,
                     lastNodeID |-> lastNodeID]
          ELSE readRows_skipEqual(rows, i + 1, row.nodeID, row.txnID,
                                  Append(history, row.data))

\* The loop over the selected rows, from row i on.
RECURSIVE readRows(_, _, _, _, _)
readRows(rows, i, lastNodeID, lastTxnID, history) ==
  IF i > Len(rows)
  THEN [err |-> "nil", history |-> history, lastNodeID |-> lastNodeID]
  ELSE LET row == rows[i]
       IN IF row.nodeID < lastNodeID
          THEN [err |-> "InternalServiceError", history |-> <<>>, lastNodeID |-> lastNodeID]
          ELSE IF row.nodeID = lastNodeID
          THEN IF row.txnID < lastTxnID
               THEN readRows(rows, i + 1, lastNodeID, lastTxnID, history)
               ELSE [err |-> "InternalServiceError", history |-> <<>>,
                     lastNodeID |-> lastNodeID]
          ELSE readRows(rows, i + 1, row.nodeID, row.txnID, Append(history, row.data))

\* Mutant: a page that is exactly full carries no token.
pagingTokenOf_gt(numRows, pageSize, lastNodeID) ==
  IF numRows > pageSize THEN serializePageToken(lastNodeID) ELSE <<>>

\* Mutant: the token names the node before the last one read.
pagingTokenOf_prev(numRows, pageSize, lastNodeID) ==
  IF numRows >= pageSize THEN serializePageToken(lastNodeID - 1) ELSE <<>>

\* The token of the response.
pagingTokenOf(numRows, pageSize, lastNodeID) ==
  IF numRows >= pageSize THEN serializePageToken(lastNodeID) ELSE <<>>

\* Mutant: the upper bound of the filter is taken as inclusive.
ReadHistoryBranch_inclusiveMax(nodeT, branchID, minNodeID, maxNodeID, pageSize, nextPageToken, ioErr) ==
  LET tok == deserializePageToken(nextPageToken)
      min == IF Len(nextPageToken) > 0 THEN tok.offset + 1 ELSE minNodeID
      rows == IF ioErr THEN <<>>
              ELSE SelectFromHistoryNode(nodeT, branchID, min, maxNodeID + 1, pageSize)
  IN IF Len(nextPageToken) > 0 /\ tok.err # "nil"
     THEN [err |-> "InternalServiceError", history |-> <<>>, nextPageToken |-> <<>>]
     ELSE IF ~ioErr /\ Len(rows) = 0
     THEN [err |-> "nil", history |-> <<>>, nextPageToken |-> <<>>]
     ELSE LET r == readRows(rows, 1, -1, -1, <<>>)
          IN IF r.err # "nil"
             THEN [err |-> r.err, history |-> <<>>, nextPageToken |-> <<>>]
             ELSE [err |-> "nil", history |-> r.history,
                   nextPageToken |-> pagingTokenOf(Len(rows), pageSize, r.lastNodeID)]

\* ioErr: the select failed with an error other than sql.ErrNoRows.
ReadHistoryBranch(nodeT, branchID, minNodeID, maxNodeID, pageSize, nextPageToken, ioErr) ==
  LET tok == deserializePageToken(nextPageToken)
      min == IF Len(nextPageToken) > 0 THEN tok.offset + 1 ELSE minNodeID
      rows == IF ioErr THEN <<>>
              ELSE SelectFromHistoryNode(nodeT, branchID, min, maxNodeID, pageSize)
  IN IF Len(nextPageToken) > 0 /\ tok.err # "nil"
     THEN [err |-> "InternalServiceError", history |-> <<>>, nextPageToken |-> <<>>]
     ELSE IF ~ioErr /\ Len(rows) = 0
     THEN [err |-> "nil", history |-> <<>>, nextPageToken |-> <<>>]
     ELSE LET r == readRows(rows, 1, -1, -1, <<>>)
          IN IF r.err # "nil"
             THEN [err |-> r.err, history |-> <<>>, nextPageToken |-> <<>>]
             ELSE [err |-> "nil", history |-> r.history,
                   nextPageToken |-> pagingTokenOf(Len(rows), pageSize, r.lastNodeID)]

\* ------------------------------------------------------- ForkHistoryBranch
\* The index of the first ancestor that ends at or after the fork node.
firstReaching(ancestors, forkNodeID) ==
  LET hit == {i \in 1..Len(ancestors) : ancestors[i].endNodeID >= forkNodeID}
  IN IF hit = {} THEN 0 ELSE CHOOSE i \in hit : \A j \in hit : i <= j

\* Mutant: a fork at the begin node itself takes the source as an ancestor.
newAncestorsOf_gt(branchID, ancestors, forkNodeID) ==
  LET beginNodeID == GetBeginNodeID(ancestors)
      k == firstReaching(ancestors, forkNodeID)
  IN IF beginNodeID > forkNodeID
     THEN IF k = 0 THEN ancestors
          ELSE [i \in 1..k |->
                  IF i = k
                  THEN HistoryBranchRange(ancestors[i].branchID,
                                          ancestors[i].beginNodeID, forkNodeID)
                  ELSE ancestors[i]]
     ELSE Append(ancestors, HistoryBranchRange(branchID, beginNodeID, forkNodeID))

\* Mutant: the ancestor that reaches the fork node is copied uncut.
newAncestorsOf_uncut(branchID, ancestors, forkNodeID) ==
  LET beginNodeID == GetBeginNodeID(ancestors)
      k == firstReaching(ancestors, forkNodeID)
  IN IF beginNodeID >= forkNodeID
     THEN IF k = 0 THEN ancestors ELSE SubSeq(ancestors, 1, k)
     ELSE Append(ancestors, HistoryBranchRange(branchID, beginNodeID, forkNodeID))

newAncestorsOf(branchID, ancestors, forkNodeID) ==
  LET beginNodeID == GetBeginNodeID(ancestors)
      k == firstReaching(ancestors, forkNodeID)
  IN IF beginNodeID >= forkNodeID
     THEN IF k = 0 THEN ancestors
          ELSE [i \in 1..k |->
                  IF i = k
                  THEN HistoryBranchRange(ancestors[i].branchID,
                                          ancestors[i].beginNodeID, forkNodeID)
                  ELSE ancestors[i]]
     ELSE Append(ancestors, HistoryBranchRange(branchID, beginNodeID, forkNodeID))

ForkHistoryBranch(treeT, branchID, ancestors, forkNodeID, newBranchID) ==
  LET newAncestors == newAncestorsOf(branchID, ancestors, forkNodeID)
      row == [branchID |-> newBranchID, inProgress |-> TRUE,
              ancestors |-> serializeAncestors(newAncestors)]
      t == InsertIntoHistoryTree(treeT, row)
  IN IF t.err # "nil"
     THEN [err |-> t.err, newAncestors |-> <<>>, history_tree |-> treeT]
     ELSE IF t.rowsAffected # 1
     THEN [err |-> "error", newAncestors |-> <<>>, history_tree |-> treeT]
     ELSE [err |-> "nil", newAncestors |-> newAncestors, history_tree |-> t.table]

\* Mutant: a committed fork keeps its in-progress flag.
CompleteForkBranch_keepFlag(nodeT, treeT, branchID, success) ==
  IF success
  THEN LET u == UpdateHistoryTree(treeT, branchID, TRUE)
       IN IF u.rowsAffected # 1
          THEN [err |-> "error", history_node |-> nodeT, history_tree |-> treeT]
          ELSE [err |-> "nil", history_node |-> nodeT, history_tree |-> u.table]
  ELSE LET n == DeleteFromHistoryNode(nodeT, branchID, 1)
           t == DeleteFromHistoryTree(treeT, branchID)
       IN IF t.rowsAffected # 1
          THEN [err |-> "error", history_node |-> nodeT, history_tree |-> treeT]
          ELSE [err |-> "nil", history_node |-> n, history_tree |-> t.table]

\* Mutant: the row count of the update is not looked at.
CompleteForkBranch_unchecked(nodeT, treeT, branchID, success) ==
  IF success
  THEN LET u == UpdateHistoryTree(treeT, branchID, FALSE)
       IN [err |-> "nil", history_node |-> nodeT, history_tree |-> u.table]
  ELSE LET n == DeleteFromHistoryNode(nodeT, branchID, 1)
           t == DeleteFromHistoryTree(treeT, branchID)
       IN IF t.rowsAffected # 1
          THEN [err |-> "error", history_node |-> nodeT, history_tree |-> treeT]
          ELSE [err |-> "nil", history_node |-> n, history_tree |-> t.table]

\* Mutant: the node deletion of a failed abort is not rolled back.
CompleteForkBranch_noRollback(nodeT, treeT, branchID, success) ==
  IF success
  THEN LET u == UpdateHistoryTree(treeT, branchID, FALSE)
       IN IF u.rowsAffected # 1
          THEN [err |-> "error", history_node |-> nodeT, history_tree |-> treeT]
          ELSE [err |-> "nil", history_node |-> nodeT, history_tree |-> u.table]
  ELSE LET n == DeleteFromHistoryNode(nodeT, branchID, 1)
           t == DeleteFromHistoryTree(treeT, branchID)
       IN IF t.rowsAffected # 1
          THEN [err |-> "error", history_node |-> n, history_tree |-> treeT]
          ELSE [err |-> "nil", history_node |-> n, history_tree |-> t.table]

\* ------------------------------------------------------ CompleteForkBranch
CompleteForkBranch(nodeT, treeT, branchID, success) ==
  IF success
  THEN LET u == UpdateHistoryTree(treeT, branchID, FALSE)
       IN IF u.rowsAffected # 1
          THEN [err |-> "error", history_node |-> nodeT, history_tree |-> treeT]
          ELSE [err |-> "nil", history_node |-> nodeT, history_tree |-> u.table]
  ELSE LET n == DeleteFromHistoryNode(nodeT, branchID, 1)
           t == DeleteFromHistoryTree(treeT, branchID)
       IN IF t.rowsAffected # 1
          THEN [err |-> "error", history_node |-> nodeT, history_tree |-> treeT]
          ELSE [err |-> "nil", history_node |-> n, history_tree |-> t.table]

\* ---------------------------------------------------------- GetHistoryTree
\* Mutant: a row in progress is left out of Branches.
GetHistoryTree_committed(treeT, ioErr) ==
  LET rows == IF ioErr THEN {} ELSE treeT
  IN [Branches |-> {[branchID |-> row.branchID,
                     ancestors |-> deserializeAncestors(row.ancestors)] :
                       row \in {r \in rows : ~r.inProgress}},
      ForkingInProgressBranches |-> {row.branchID : row \in {r \in rows : r.inProgress}}]

\* ioErr: the select failed with an error other than sql.ErrNoRows.
GetHistoryTree(treeT, ioErr) ==
  LET rows == IF ioErr THEN {} ELSE treeT
  IN [Branches |-> {[branchID |-> row.branchID,
                     ancestors |-> deserializeAncestors(row.ancestors)] : row \in rows},
      ForkingInProgressBranches |-> {row.branchID : row \in {r \in rows : r.inProgress}}]

\* ----------------------------------------------------- DeleteHistoryBranch
SetMax(S) == CHOOSE x \in S : \A y \in S : y <= x

\* For each branch some row's chain names, the largest endNodeID named.
validBRsMaxEndNodeOf(branches) ==
  LET refs == UNION {{ <<b.ancestors[i].branchID, b.ancestors[i].endNodeID>> :
                        i \in 1..Len(b.ancestors)} : b \in branches}
  IN [id \in {r[1] : r \in refs} |-> SetMax({r[2] : r \in {q \in refs : q[1] = id}})]

\* Mutant: only two or more forks in progress refuse the delete.
forkingInProgress_two(rsp) == Cardinality(rsp.ForkingInProgressBranches) > 1

\* The branch is refused while the tree shows a fork in progress.
forkingInProgress(rsp) == rsp.ForkingInProgressBranches # {}

\* The part before the transaction.
DeleteHistoryBranchRead(treeT, branchID, ancestors, ioErr) ==
  LET beginNodeID == GetBeginNodeID(ancestors)
      brsToDelete == Append(ancestors, HistoryBranchRange(branchID, beginNodeID, 0))
      rsp == GetHistoryTree(treeT, ioErr)
  IN IF forkingInProgress(rsp)
     THEN [err |-> "ConditionFailedError"]
     ELSE [err |-> "nil", branchID |-> branchID, brsToDelete |-> brsToDelete,
           validBRsMaxEndNode |-> validBRsMaxEndNodeOf(rsp.Branches)]

\* Mutant: a range some chain names is deleted from its begin node too.
RECURSIVE deleteRanges_all(_, _, _, _)
deleteRanges_all(nodeT, brsToDelete, validBRsMaxEndNode, i) ==
  IF i < 1 THEN nodeT
  ELSE LET br == brsToDelete[i]
           ok == br.branchID \in DOMAIN validBRsMaxEndNode
           n == DeleteFromHistoryNode(nodeT, br.branchID, br.beginNodeID)
       IN IF ok THEN n ELSE deleteRanges_all(n, brsToDelete, validBRsMaxEndNode, i - 1)

\* Mutant: the walk goes on after a range some chain names.
RECURSIVE deleteRanges_noStop(_, _, _, _)
deleteRanges_noStop(nodeT, brsToDelete, validBRsMaxEndNode, i) ==
  IF i < 1 THEN nodeT
  ELSE LET br == brsToDelete[i]
           ok == br.branchID \in DOMAIN validBRsMaxEndNode
           minNodeID == IF ok THEN validBRsMaxEndNode[br.branchID] ELSE br.beginNodeID
           n == DeleteFromHistoryNode(nodeT, br.branchID, minNodeID)
       IN deleteRanges_noStop(n, brsToDelete, validBRsMaxEndNode, i - 1)

\* The loop of the transaction, from range i down.
RECURSIVE deleteRanges(_, _, _, _)
deleteRanges(nodeT, brsToDelete, validBRsMaxEndNode, i) ==
  IF i < 1 THEN nodeT
  ELSE LET br == brsToDelete[i]
           ok == br.branchID \in DOMAIN validBRsMaxEndNode
           minNodeID == IF ok THEN validBRsMaxEndNode[br.branchID] ELSE br.beginNodeID
           n == DeleteFromHistoryNode(nodeT, br.branchID, minNodeID)
       IN IF ok THEN n ELSE deleteRanges(n, brsToDelete, validBRsMaxEndNode, i - 1)

\* Mutant: the transaction enumerates the branches again and walks with what
\* it finds, not with what was read before it began.
DeleteHistoryBranchTx_reread(nodeT, treeT, branchID, brsToDelete, validBRsMaxEndNode) ==
  LET t == DeleteFromHistoryTree(treeT, branchID)
      now == validBRsMaxEndNodeOf(GetHistoryTree(treeT, FALSE).Branches)
  IN [err |-> "nil",
      history_node |-> deleteRanges(nodeT, brsToDelete, now, Len(brsToDelete)),
      history_tree |-> t.table]

\* The transaction.
DeleteHistoryBranchTx(nodeT, treeT, branchID, brsToDelete, validBRsMaxEndNode) ==
  LET t == DeleteFromHistoryTree(treeT, branchID)
  IN [err |-> "nil",
      history_node |-> deleteRanges(nodeT, brsToDelete, validBRsMaxEndNode, Len(brsToDelete)),
      history_tree |-> t.table]

\* ------------------------------------------------------------ the results
Return(op, err) == last' = [op |-> op, err |-> err]

Init ==
  /\ history_node = {}
  /\ history_tree = {}
  /\ branchInfos = <<>>
  /\ del = [pc |-> "idle"]
  /\ last = [op |-> "none", err |-> "nil"]
  /\ pager = [pc |-> "idle"]
  /\ reader = [pc |-> "idle"]
  /\ execution_maps = {}

\* ------------------------------------------------------------- the calls
\* The callers hold the descriptor of every branch that was created or
\* forked: its ancestors, and the branch and node it was forked at.
\* The call in flight, once another call has inserted a branch row.
NoteInsert(d, by, inserted) ==
  IF d.pc = "tx" /\ inserted /\ d.inserted # "fork"
  THEN [d EXCEPT !.inserted = by] ELSE d

\* Node row r belongs to the logical history of a branch: to one of its
\* ancestor ranges, or to the branch itself from its begin node.
OwnsNode(ancestors, branchID, r) ==
  \/ r.branchID = branchID /\ r.nodeID >= GetBeginNodeID(ancestors)
  \/ \E i \in 1..Len(ancestors) :
       /\ ancestors[i].branchID = r.branchID
       /\ ancestors[i].beginNodeID <= r.nodeID
       /\ r.nodeID < ancestors[i].endNodeID

\* nodeID is the id of a node stored now in the logical history of a branch.
NodeBoundary(ancestors, branchID, nodeID) ==
  \E r \in history_node : r.nodeID = nodeID /\ OwnsNode(ancestors, branchID, r)

BranchInfo(ancestors, source, forkNodeID) ==
  [ancestors |-> ancestors, source |-> source, forkNodeID |-> forkNodeID]

Known == DOMAIN branchInfos
NewBranchID == Len(branchInfos) + 1

\* The first append of a branch the caller has just made up (no ancestors).
AppendNewBranch(limit, rowLimit, nodeID, txnID, data) ==
  LET r == AppendHistoryNodes(history_node, history_tree, NewBranchID, <<>>,
                              nodeID, txnID, data, TRUE)
  IN /\ NewBranchID <= limit
     /\ Cardinality(r.history_node) <= rowLimit
     /\ history_node' = r.history_node
     /\ history_tree' = r.history_tree
     /\ branchInfos' = Append(branchInfos, BranchInfo(<<>>, 0, 0))
     /\ del' = NoteInsert(del, "append", r.history_tree # history_tree)
     /\ Return("AppendHistoryNodes", r.err)
     /\ UNCHANGED <<pager, reader, execution_maps>>

\* An append with the descriptor of a known branch.
Append_(rowLimit, branchID, nodeID, txnID, data, isNewBranch) ==
  LET r == AppendHistoryNodes(history_node, history_tree, branchID,
                              branchInfos[branchID].ancestors,
                              nodeID, txnID, data, isNewBranch)
  IN /\ branchID \in Known
     /\ Cardinality(r.history_node) <= rowLimit
     /\ history_node' = r.history_node
     /\ history_tree' = r.history_tree
     /\ del' = NoteInsert(del, "append", r.history_tree # history_tree)
     /\ Return("AppendHistoryNodes", r.err)
     /\ UNCHANGED <<branchInfos, pager, reader, execution_maps>>

Fork(limit, branchID, forkNodeID) ==
  LET r == ForkHistoryBranch(history_tree, branchID, branchInfos[branchID].ancestors,
                             forkNodeID, NewBranchID)
  IN /\ branchID \in Known
     /\ NewBranchID <= limit
     /\ history_tree' = r.history_tree
     /\ branchInfos' = IF r.err = "nil"
                       THEN Append(branchInfos,
                                   BranchInfo(r.newAncestors, branchID, forkNodeID))
                       ELSE branchInfos
     /\ del' = NoteInsert(del, "fork", r.history_tree # history_tree)
     /\ Return("ForkHistoryBranch", r.err)
     /\ UNCHANGED <<history_node, pager, reader, execution_maps>>

CompleteFork(branchID, success) ==
  LET r == CompleteForkBranch(history_node, history_tree, branchID, success)
  IN /\ branchID \in Known
     /\ history_node' = r.history_node
     /\ history_tree' = r.history_tree
     /\ Return("CompleteForkBranch", r.err)
     /\ UNCHANGED <<branchInfos, del, pager, reader, execution_maps>>

\* DeleteHistoryBranch up to its transaction: it returns at once when a fork
\* is in progress.
DeleteRead(branchID) ==
  LET r == DeleteHistoryBranchRead(history_tree, branchID,
                                   branchInfos[branchID].ancestors, FALSE)
  IN /\ branchID \in Known
     /\ del.pc = "idle"
     /\ IF r.err # "nil"
        THEN /\ Return("DeleteHistoryBranch", r.err)
             /\ UNCHANGED del
        ELSE /\ del' = [pc |-> "tx", branchID |-> r.branchID,
                        brsToDelete |-> r.brsToDelete,
                        validBRsMaxEndNode |-> r.validBRsMaxEndNode,
                        inserted |-> "none"]
             /\ UNCHANGED last
     /\ UNCHANGED <<history_node, history_tree, branchInfos, pager, reader, execution_maps>>

\* The transaction of DeleteHistoryBranch, and its return.
DeleteTx ==
  LET r == DeleteHistoryBranchTx(history_node, history_tree, del.branchID,
                                 del.brsToDelete, del.validBRsMaxEndNode)
  IN /\ del.pc = "tx"
     /\ history_node' = r.history_node
     /\ history_tree' = r.history_tree
     /\ del' = [pc |-> "idle"]
     /\ Return("DeleteHistoryBranch", r.err)
     /\ UNCHANGED <<branchInfos, pager, reader, execution_maps>>

\* Spec: the tree operations on up to MaxBranch branches.
NewBranch ==
  \E n \in NodeIDs, t \in TreeTxnIDs :
    AppendNewBranch(MaxBranch, MaxRows, n, t, EventsOf(NewBranchID, n, t))

AppendNodes ==
  \E b \in BranchIDs, n \in NodeIDs, t \in TreeTxnIDs, new \in BOOLEAN :
    Append_(MaxRows, b, n, t, EventsOf(b, n, t), new)

ForkBranch == \E b \in BranchIDs, f \in ForkNodeIDs : Fork(MaxBranch, b, f)

CompleteForkOf == \E b \in BranchIDs, ok \in BOOLEAN : CompleteFork(b, ok)

DeleteBranchRead == \E b \in BranchIDs : DeleteRead(b)

Next ==
  \/ NewBranch
  \/ AppendNodes
  \/ ForkBranch
  \/ CompleteForkOf
  \/ DeleteBranchRead
  \/ DeleteTx

Spec == Init /\ [][Next]_vars

\* SpecTxn: the same operations on up to MaxTxnBranch branches, with several
\* transaction ids and blobs for a node.
NewBranchTxn ==
  \E n \in NodeIDs, t \in TxnIDs, d \in Blobs : AppendNewBranch(MaxTxnBranch, MaxTxnRows, n, t, d)

AppendNodesTxn ==
  \E b \in BranchIDs, n \in NodeIDs, t \in TxnIDs, d \in Blobs, new \in BOOLEAN :
    Append_(MaxTxnRows, b, n, t, d, new)

ForkBranchTxn == \E b \in BranchIDs, f \in ForkNodeIDs : Fork(MaxTxnBranch, b, f)

NextTxn ==
  \/ NewBranchTxn
  \/ AppendNodesTxn
  \/ ForkBranchTxn
  \/ CompleteForkOf
  \/ DeleteBranchRead
  \/ DeleteTx

SpecTxn == Init /\ [][NextTxn]_vars

\* SpecBoundary: the operations of Spec, with every fork made at a fork node
\* that is the id of a node of the source's logical history.
ForkBranchAtBoundary ==
  \E b \in BranchIDs, f \in ForkNodeIDs :
    /\ b \in Known
    /\ NodeBoundary(branchInfos[b].ancestors, b, f)
    /\ Fork(MaxBranch, b, f)

NextBoundary ==
  \/ NewBranch
  \/ AppendNodes
  \/ ForkBranchAtBoundary
  \/ CompleteForkOf
  \/ DeleteBranchRead
  \/ DeleteTx

SpecBoundary == Init /\ [][NextBoundary]_vars

\* ------------------------------------------------------ execution info maps
\* SpecMaps: one info map table (timer_info_maps: value columns data and
\* data_encoding) of the executions of one shard, domain and workflow; run_id
\* tells the executions apart, key is the map key column (timer_id).
MapRuns == 1..MaxMapRun
MapKeys == 1..MaxMapKey
Encodings == {"thriftrw", "json"}

MapsRows ==
  [run_id : MapRuns, key : MapKeys, data : Blobs, data_encoding : Encodings]

\* ON CONFLICT (shard_id, domain_id, workflow_id, run_id, key)
conflictColumns == {"run_id", "key"}

\* DO UPDATE SET shard_id = excluded.shard_id, ..., key = excluded.key
conflictSetColumns == {"run_id", "key"}

\* Rows old and new have the same values in the conflict columns.
Conflicts(old, new) == \A c \in conflictColumns : old[c] = new[c]

\* setKeyInMapQueryTemplate for one row: INSERT ... ON CONFLICT ... DO UPDATE
\* SET ...; the row in conflict keeps every column the SET list does not name.
setKeyInMap(table, row) ==
  IF \E old \in table : Conflicts(old, row)
  THEN {IF Conflicts(old, row)
        THEN [c \in DOMAIN old |-> IF c \in conflictSetColumns THEN row[c] ELSE old[c]]
        ELSE old : old \in table}
  ELSE table \cup {row}

\* ReplaceIntoTimerInfoMaps with one row.
ReplaceIntoMaps(table, row) == setKeyInMap(table, row)

\* getMapQueryTemplate: the rows of one execution.
SelectFromMaps(table, run_id) == {r \in table : r.run_id = run_id}

\* DeleteFromTimerInfoMaps: one key of an execution (key # 0: the filter's
\* TimerID is set), or all of its rows (key = 0: it is nil).
DeleteFromMaps(table, run_id, key) ==
  IF key # 0
  THEN {r \in table : ~(r.run_id = run_id /\ r.key = key)}
  ELSE {r \in table : r.run_id # run_id}

ReplaceMaps(row) ==
  /\ execution_maps' = ReplaceIntoMaps(execution_maps, row)
  /\ Return("ReplaceIntoMaps", "nil")
  /\ UNCHANGED <<history_node, history_tree, branchInfos, del, pager, reader>>

DeleteMaps(run_id, key) ==
  /\ execution_maps' = DeleteFromMaps(execution_maps, run_id, key)
  /\ Return("DeleteFromMaps", "nil")
  /\ UNCHANGED <<history_node, history_tree, branchInfos, del, pager, reader>>

ReplaceMapsRow == \E row \in MapsRows : ReplaceMaps(row)

DeleteMapsKey == \E run_id \in MapRuns, key \in MapKeys : DeleteMaps(run_id, key)

DeleteMapsAll == \E run_id \in MapRuns : DeleteMaps(run_id, 0)

NextMaps ==
  \/ ReplaceMapsRow
  \/ DeleteMapsKey
  \/ DeleteMapsAll

SpecMaps == Init /\ [][NextMaps]_vars

\* SpecGC: the operations of Spec on branches that have a row, where a row
\* is removed by DeleteHistoryBranch only: every fork is committed, and no
\* call is made for a branch whose row is gone.
HasBranchRow(branchID) == \E row \in history_tree : row.branchID = branchID

AppendNodesOfRow ==
  \E b \in BranchIDs, n \in NodeIDs, t \in TreeTxnIDs, new \in BOOLEAN :
    HasBranchRow(b) /\ Append_(MaxRows, b, n, t, EventsOf(b, n, t), new)

ForkBranchOfRow ==
  \E b \in BranchIDs, f \in ForkNodeIDs : HasBranchRow(b) /\ Fork(MaxBranch, b, f)

CommitForkOfRow == \E b \in BranchIDs : HasBranchRow(b) /\ CompleteFork(b, TRUE)

DeleteBranchOfRow == \E b \in BranchIDs : HasBranchRow(b) /\ DeleteRead(b)

NextGC ==
  \/ NewBranch
  \/ AppendNodesOfRow
  \/ ForkBranchOfRow
  \/ CommitForkOfRow
  \/ DeleteBranchOfRow
  \/ DeleteTx

SpecGC == Init /\ [][NextGC]_vars

\* SpecFault: the tree operations on up to MaxFaultBranch branches, where the
\* select of ReadHistoryBranch and the select of GetHistoryTree may fail with
\* an error other than sql.ErrNoRows.
\* One ReadHistoryBranch without a token, and its return.
ReadBranch(branchID, minNodeID, maxNodeID, pageSize, ioErr) ==
  LET r == ReadHistoryBranch(history_node, branchID, minNodeID, maxNodeID,
                             pageSize, <<>>, ioErr)
  IN /\ branchID \in Known
     /\ Return("ReadHistoryBranch", r.err)
     /\ UNCHANGED <<history_node, history_tree, branchInfos, del, pager, reader,
                    execution_maps>>

\* DeleteHistoryBranch up to its transaction, when the select of
\* GetHistoryTree fails.
DeleteReadFault(branchID) ==
  LET r == DeleteHistoryBranchRead(history_tree, branchID,
                                   branchInfos[branchID].ancestors, TRUE)
  IN /\ branchID \in Known
     /\ del.pc = "idle"
     /\ IF r.err # "nil"
        THEN /\ Return("DeleteHistoryBranch", r.err)
             /\ UNCHANGED del
        ELSE /\ del' = [pc |-> "tx", branchID |-> r.branchID,
                        brsToDelete |-> r.brsToDelete,
                        validBRsMaxEndNode |-> r.validBRsMaxEndNode,
                        inserted |-> "none"]
             /\ UNCHANGED last
     /\ UNCHANGED <<history_node, history_tree, branchInfos, pager, reader, execution_maps>>

NewBranchFault ==
  \E n \in NodeIDs, t \in TreeTxnIDs :
    AppendNewBranch(MaxFaultBranch, MaxFaultRows, n, t, EventsOf(NewBranchID, n, t))

AppendNodesFault ==
  \E b \in BranchIDs, n \in NodeIDs, t \in TreeTxnIDs, new \in BOOLEAN :
    Append_(MaxFaultRows, b, n, t, EventsOf(b, n, t), new)

ForkBranchFault == \E b \in BranchIDs, f \in ForkNodeIDs : Fork(MaxFaultBranch, b, f)

ReadBranchOk ==
  \E b \in BranchIDs, min \in NodeIDs, max \in ForkNodeIDs, ps \in PageSizes :
    ReadBranch(b, min, max, ps, FALSE)

ReadBranchFault ==
  \E b \in BranchIDs, min \in NodeIDs, max \in ForkNodeIDs, ps \in PageSizes :
    ReadBranch(b, min, max, ps, TRUE)

DeleteBranchReadFault == \E b \in BranchIDs : DeleteReadFault(b)

NextFault ==
  \/ NewBranchFault
  \/ AppendNodesFault
  \/ ForkBranchFault
  \/ CompleteForkOf
  \/ ReadBranchOk
  \/ ReadBranchFault
  \/ DeleteBranchRead
  \/ DeleteBranchReadFault
  \/ DeleteTx

SpecFault == Init /\ [][NextFault]_vars

\* SpecPage: a caller pages through one branch of a store that no other call
\* changes. The store is any set of rows of branch 1 over PageNodeIDs and
\* TxnIDs.
PageBranch == 1

PageRows ==
  {[branchID |-> PageBranch, nodeID |-> n, txnID |-> t, data |-> EventsOf(PageBranch, n, t)] :
     n \in PageNodeIDs, t \in TxnIDs}

InitPage ==
  /\ history_node \in SUBSET PageRows
  /\ history_tree = {treeRowOf(PageBranch, <<>>)}
  /\ branchInfos = <<BranchInfo(<<>>, 0, 0)>>
  /\ del = [pc |-> "idle"]
  /\ last = [op |-> "none", err |-> "nil"]
  /\ pager = [pc |-> "idle"]
  /\ reader = [pc |-> "idle"]
  /\ execution_maps = {}

\* The page cut falls between two rows of one node id: the select with this
\* page size stops at a row whose successor has the same node id.
SplitsGroup(nodeT, branchID, minNodeID, maxNodeID, pageSize) ==
  LET all == SelectFromHistoryNode(nodeT, branchID, minNodeID, maxNodeID,
                                   Cardinality(nodeT) + 1)
  IN Len(all) > pageSize /\ all[pageSize].nodeID = all[pageSize + 1].nodeID

\* The caller's state after a response.
PagerAfter(r, minNodeID, maxNodeID, pageSize, history, pages, split) ==
  [pc |-> IF r.err # "nil" THEN "failed"
          ELSE IF r.nextPageToken = <<>> THEN "done" ELSE "paging",
   minNodeID |-> minNodeID, maxNodeID |-> maxNodeID, pageSize |-> pageSize,
   history |-> history \o r.history, nextPageToken |-> r.nextPageToken,
   pages |-> pages + 1, split |-> split]

\* The first ReadHistoryBranch of a paged read: no token.
PageFirst(minNodeID, maxNodeID, pageSize) ==
  LET r == ReadHistoryBranch(history_node, PageBranch, minNodeID, maxNodeID,
                             pageSize, <<>>, FALSE)
  IN /\ pager.pc = "idle"
     /\ pager' = PagerAfter(r, minNodeID, maxNodeID, pageSize, <<>>, 0,
                            SplitsGroup(history_node, PageBranch, minNodeID,
                                        maxNodeID, pageSize))
     /\ Return("ReadHistoryBranch", r.err)
     /\ UNCHANGED <<history_node, history_tree, branchInfos, del, reader, execution_maps>>

\* The next ReadHistoryBranch: the same request with the token of the last
\* response.
PageNext ==
  LET r == ReadHistoryBranch(history_node, PageBranch, pager.minNodeID,
                             pager.maxNodeID, pager.pageSize,
                             pager.nextPageToken, FALSE)
      from == deserializePageToken(pager.nextPageToken).offset + 1
  IN /\ pager.pc = "paging"
     /\ pager' = PagerAfter(r, pager.minNodeID, pager.maxNodeID, pager.pageSize,
                            pager.history, pager.pages,
                            pager.split \/ SplitsGroup(history_node, PageBranch, from,
                                                       pager.maxNodeID, pager.pageSize))
     /\ Return("ReadHistoryBranch", r.err)
     /\ UNCHANGED <<history_node, history_tree, branchInfos, del, reader, execution_maps>>

PageStart ==
  \E min \in PageNodeIDs, max \in 1..(MaxPageNodeID + 1), ps \in PageSizes :
    PageFirst(min, max, ps)

NextPage ==
  \/ PageStart
  \/ PageNext

SpecPage == InitPage /\ [][NextPage]_vars

\* SpecPageLive: SpecPage with a caller that goes on: while the last response
\* carried a token, the next call is made.
SpecPageLive == InitPage /\ [][NextPage]_vars /\ WF_vars(PageNext)

\* SpecRows: the loop of ReadHistoryBranch over rows that a select hands it
\* in any order, the orders that break ORDER BY node_id, txn_id DESC included.
SelectedRows ==
  {[branchID |-> PageBranch, nodeID |-> n, txnID |-> t, data |-> EventsOf(PageBranch, n, t)] :
     n \in NodeIDs, t \in TxnIDs}

SelectedSeqs == UNION {[1..k -> SelectedRows] : k \in 0..MaxSelected}

InitRows ==
  /\ history_node = {}
  /\ history_tree = {}
  /\ branchInfos = <<>>
  /\ del = [pc |-> "idle"]
  /\ last = [op |-> "none", err |-> "nil"]
  /\ pager = [pc |-> "idle"]
  /\ execution_maps = {}
  /\ reader \in {[pc |-> "selected", rows |-> rows] : rows \in SelectedSeqs}

\* The loop over the rows selected, and the return of the call.
ReadSelected ==
  LET r == readRows(reader.rows, 1, -1, -1, <<>>)
  IN /\ reader.pc = "selected"
     /\ Len(reader.rows) > 0
     /\ reader' = [pc |-> "returned", rows |-> reader.rows, history |-> r.history]
     /\ Return("ReadHistoryBranch", r.err)
     /\ UNCHANGED <<history_node, history_tree, branchInfos, del, pager, execution_maps>>

\* The return of the call when the select has found no row.
ReadNoRows ==
  /\ reader.pc = "selected"
  /\ Len(reader.rows) = 0
  /\ reader' = [pc |-> "returned", rows |-> reader.rows, history |-> <<>>]
  /\ Return("ReadHistoryBranch", "nil")
  /\ UNCHANGED <<history_node, history_tree, branchInfos, del, pager, execution_maps>>

NextRows ==
  \/ ReadSelected
  \/ ReadNoRows

SpecRows == InitRows /\ [][NextRows]_vars

\* ------------------------------------------------------- reading a branch
\* One ReadHistoryBranch with a page larger than the table: the whole range.
ReadRange(nodeT, branchID, minNodeID, maxNodeID) ==
  ReadHistoryBranch(nodeT, branchID, minNodeID, maxNodeID,
                    Cardinality(nodeT) + 1, <<>>, FALSE).history

\* A node id above every stored one.
Beyond(nodeT) == 1 + SetMax({0} \cup {r.nodeID : r \in nodeT})

RECURSIVE ReadChain(_, _, _, _)
\* The ranges of the first i entries of a chain, each cut at limit.
ReadChain(nodeT, ancestors, i, limit) ==
  IF i = 0 THEN <<>>
  ELSE ReadChain(nodeT, ancestors, i - 1, limit)
       \o ReadRange(nodeT, ancestors[i].branchID, ancestors[i].beginNodeID,
                    IF ancestors[i].endNodeID < limit
                    THEN ancestors[i].endNodeID ELSE limit)

\* The logical history of a branch below limit: its ancestors' ranges in
\* order, then the branch itself from its begin node.
LogicalHistoryBelow(nodeT, branchID, ancestors, limit) ==
  ReadChain(nodeT, ancestors, Len(ancestors), limit)
  \o ReadRange(nodeT, branchID, GetBeginNodeID(ancestors), limit)

LogicalHistory(nodeT, branchID, ancestors) ==
  LogicalHistoryBelow(nodeT, branchID, ancestors, Beyond(nodeT))

RowHistory(nodeT, row) ==
  LogicalHistory(nodeT, row.branchID, deserializeAncestors(row.ancestors))

InProgressRows(treeT) == {row \in treeT : row.inProgress}

\* --------------------------------------------------------------------- C1
\* The DeleteHistoryBranch call in flight read the tree as it is now: no
\* other call came between its read and its transaction.
DeleteRanAlone ==
  /\ del.pc = "tx"
  /\ InProgressRows(history_tree) = {}
  /\ del.validBRsMaxEndNode
       = validBRsMaxEndNodeOf(GetHistoryTree(history_tree, FALSE).Branches)

HasRow(treeT, branchID) == \E row \in treeT : row.branchID = branchID

\* C1 (as claimed): a DeleteHistoryBranch of a branch of the tree that ran
\* alone leaves the logical history of every branch whose row remains as it
\* was before the delete.
C1_DeleteSafety ==
  [][(DeleteTx /\ DeleteRanAlone /\ HasRow(history_tree, del.branchID)) =>
       \A row \in history_tree' :
         RowHistory(history_node', row) = RowHistory(history_node, row)]_vars

\* --------------------------------------------------------------------- C2
\* C2: a DeleteHistoryBranch that reads the tree while some row (the target's
\* included) has in-progress set returns ConditionFailedError, deletes no row
\* and no node, and does not go on to its transaction.
C2_InProgressBlocksDelete ==
  [][\A b \in BranchIDs :
       (DeleteRead(b) /\ InProgressRows(history_tree) # {}) =>
         /\ last' = [op |-> "DeleteHistoryBranch", err |-> "ConditionFailedError"]
         /\ history_node' = history_node
         /\ history_tree' = history_tree
         /\ del'.pc = "idle"]_vars

\* A delete was refused while the target's own row was the fork in progress.
C2_Witness ==
  /\ last = [op |-> "DeleteHistoryBranch", err |-> "ConditionFailedError"]
  /\ InProgressRows(history_tree) # {}
  /\ history_node # {}
  /\ del.pc = "idle"

\* --------------------------------------------------------------------- C3
\* Node row r lies in a range some chain of the table names.
Referenced(treeT, r) ==
  \E row \in treeT :
    \E i \in 1..Len(row.ancestors) :
      LET br == deserializeAncestors(row.ancestors)[i]
      IN /\ br.branchID = r.branchID
         /\ br.beginNodeID <= r.nodeID
         /\ r.nodeID < br.endNodeID

\* C3 (as claimed): with no fork begun since the delete's read, the delete's
\* transaction removes no node in a range that a remaining row's chain names.
C3_NoForkNoOverDelete ==
  [][(DeleteTx /\ del.inserted # "fork") =>
       \A r \in history_node \ history_node' : ~Referenced(history_tree', r)]_vars

\* C3 (amended): with no branch row inserted since the delete's read, by a
\* fork or by an append with IsNewBranch, the delete's transaction removes no
\* node in a range that a remaining row's chain names.
C3_NoInsertNoOverDelete ==
  [][(DeleteTx /\ del.inserted = "none") =>
       \A r \in history_node \ history_node' : ~Referenced(history_tree', r)]_vars

\* A delete has returned, and nodes of a branch whose row is gone are still
\* stored in a range that a remaining chain names.
C3_Witness ==
  /\ last = [op |-> "DeleteHistoryBranch", err |-> "nil"]
  /\ del.pc = "idle"
  /\ \E r \in history_node :
       Referenced(history_tree, r) /\ ~HasRow(history_tree, r.branchID)

\* --------------------------------------------------------------------- C4
\* The begin node of a chain, as the claim words it.
EndOfLastAncestor(ancestors) ==
  IF ancestors = <<>> THEN 1 ELSE ancestors[Len(ancestors)].endNodeID

\* The call AppendHistoryNodes(b, n, t, d, new) made in the present state.
AppendCall(b, n, t, d, new) ==
  AppendHistoryNodes(history_node, history_tree, b, branchInfos[b].ancestors, n, t, d, new)

\* C4: in every state, an append below the begin node of the descriptor it is
\* given returns InvalidPersistenceRequestError and writes nothing, whatever
\* IsNewBranch is; an append at or above it never returns that error.
C4_AppendPrecondition ==
  \A b \in Known, n \in NodeIDs, t \in TreeTxnIDs, new \in BOOLEAN :
    LET r == AppendCall(b, n, t, EventsOf(b, n, t), new)
    IN IF n < EndOfLastAncestor(branchInfos[b].ancestors)
       THEN /\ r.err = "InvalidPersistenceRequestError"
            /\ r.history_node = history_node
            /\ r.history_tree = history_tree
       ELSE r.err # "InvalidPersistenceRequestError"

\* An append below the begin node of a forked branch was refused.
C4_Witness ==
  /\ last = [op |-> "AppendHistoryNodes", err |-> "InvalidPersistenceRequestError"]
  /\ \E b \in Known : EndOfLastAncestor(branchInfos[b].ancestors) > 1

\* --------------------------------------------------------------------- C5
RowsAt(nodeT, branchID, nodeID) ==
  {x \in nodeT : x.branchID = branchID /\ x.nodeID = nodeID}

\* The row of a node with the largest transaction id.
Newest(nodeT, branchID, nodeID) ==
  CHOOSE x \in RowsAt(nodeT, branchID, nodeID) :
    \A y \in RowsAt(nodeT, branchID, nodeID) : y.txnID <= x.txnID

\* For each stored node id of [minNodeID, maxNodeID) in order, the blob of
\* its row with the largest transaction id.
RECURSIVE NewestBlobs(_, _, _, _)
NewestBlobs(nodeT, branchID, minNodeID, maxNodeID) ==
  IF minNodeID >= maxNodeID THEN <<>>
  ELSE (IF RowsAt(nodeT, branchID, minNodeID) = {} THEN <<>>
        ELSE <<Newest(nodeT, branchID, minNodeID).data>>)
       \o NewestBlobs(nodeT, branchID, minNodeID + 1, maxNodeID)

\* C5: in every state, an append (IsNewBranch unset, node id not below the
\* begin node) to a node that holds rows of other transaction ids only, larger
\* or smaller, succeeds, and every read over a range with that node then
\* returns one blob for each stored node: that of its largest transaction id.
C5_TxnDedup ==
  \A b \in Known, n \in NodeIDs, t \in TxnIDs, d \in Blobs :
    LET at == RowsAt(history_node, b, n)
        r == AppendCall(b, n, t, d, FALSE)
    IN (/\ n >= EndOfLastAncestor(branchInfos[b].ancestors)
        /\ at # {}
        /\ \A x \in at : x.txnID # t) =>
         /\ r.err = "nil"
         /\ \A min \in 1..n, max \in (n + 1)..(MaxNodeID + 1) :
              ReadRange(r.history_node, b, min, max)
                = NewestBlobs(r.history_node, b, min, max)

\* Two appends of different transaction ids and blobs to one node have
\* succeeded, and the read of the whole branch returns the later blob.
C5_Witness ==
  /\ last = [op |-> "AppendHistoryNodes", err |-> "nil"]
  /\ \E x, y \in history_node :
       /\ x.branchID = y.branchID /\ x.nodeID = y.nodeID
       /\ x.txnID < y.txnID /\ x.data # y.data
       /\ ReadRange(history_node, x.branchID, 1, MaxNodeID + 1) = <<y.data>>

ReadNodeAfter(r, b, n, pageSize) ==
  ReadHistoryBranch(r.history_node, b, n, n + 1, pageSize, <<>>, FALSE)

\* C7 as stated: after any successful append (IsNewBranch unset) of blob d at
\* node n, the read of [n, n+1) returns the one entry d.
C7_AppendMonotonicity ==
  \A b \in Known, n \in NodeIDs, t \in TxnIDs, d \in Blobs :
    LET r == AppendCall(b, n, t, d, FALSE)
    IN r.err = "nil" =>
         \A ps \in PageSizes : ReadNodeAfter(r, b, n, ps).history = <<d>>

\* C7, amended: after any successful append (IsNewBranch unset) of blob d
\* with transaction id t at node n, the read of [n, n+1) returns one entry,
\* the blob of the row of n with the largest transaction id; that is d when
\* no row of n has a transaction id above t.
C7_AppendNewestWins ==
  \A b \in Known, n \in NodeIDs, t \in TxnIDs, d \in Blobs :
    LET r == AppendCall(b, n, t, d, FALSE)
    IN r.err = "nil" =>
         \A ps \in PageSizes :
           LET h == ReadNodeAfter(r, b, n, ps).history
           IN /\ Len(h) = 1
              /\ h[1] = Newest(r.history_node, b, n).data
              /\ (\A x \in RowsAt(history_node, b, n) : x.txnID < t) => h[1] = d

\* An append has succeeded on a forked branch whose node holds two
\* transaction ids, and the read of that node returns one entry.
C7_Witness ==
  /\ last = [op |-> "AppendHistoryNodes", err |-> "nil"]
  /\ \E x, y \in history_node :
       /\ x.branchID = y.branchID /\ x.nodeID = y.nodeID /\ x.txnID < y.txnID
       /\ branchInfos[x.branchID].source # 0
       /\ Len(ReadRange(history_node, x.branchID, x.nodeID, x.nodeID + 1)) = 1

\* --------------------------------------------------------------------- C8
\* C8: for a committed branch made by a fork, reading each entry of its stored
\* chain over [beginNodeID, endNodeID) gives the blobs of the source's logical
\* history below the fork node.
C8_ForkPrefixEquality ==
  \A row \in history_tree :
    LET info == branchInfos[row.branchID]
        chain == deserializeAncestors(row.ancestors)
    IN (~row.inProgress /\ info.source # 0) =>
         ReadChain(history_node, chain, Len(chain), Beyond(history_node))
           = LogicalHistoryBelow(history_node, info.source,
                                 branchInfos[info.source].ancestors, info.forkNodeID)

\* A committed fork of a forked branch, cut inside the source's ancestors,
\* with a node stored in the prefix it inherits.
C8_Witness ==
  \E row \in history_tree :
    LET info == branchInfos[row.branchID]
        chain == deserializeAncestors(row.ancestors)
    IN /\ ~row.inProgress
       /\ info.source # 0
       /\ branchInfos[info.source].source # 0
       /\ info.forkNodeID <= GetBeginNodeID(branchInfos[info.source].ancestors)
       /\ ReadChain(history_node, chain, Len(chain), info.forkNodeID) # <<>>

\* --------------------------------------------------------------------- C9
\* C9: in every state, an append to a forked branch at or above its fork node
\* leaves the rows of every other branch, and so every read of another branch,
\* as they were.
C9_ForkIsolation ==
  \A b \in Known, n \in NodeIDs, t \in TreeTxnIDs, new \in BOOLEAN :
    (branchInfos[b].source # 0 /\ n >= branchInfos[b].forkNodeID) =>
      LET r == AppendCall(b, n, t, EventsOf(b, n, t), new)
      IN /\ {x \in r.history_node : x.branchID # b} = {x \in history_node : x.branchID # b}
         /\ \A b2 \in Known \ {b} :
              \A min \in NodeIDs, max \in ForkNodeIDs :
                ReadRange(r.history_node, b2, min, max) = ReadRange(history_node, b2, min, max)

\* A forked branch and its source both hold a node at the fork node.
C9_Witness ==
  /\ last = [op |-> "AppendHistoryNodes", err |-> "nil"]
  /\ \E r \in history_node :
       /\ branchInfos[r.branchID].source # 0
       /\ r.nodeID >= branchInfos[r.branchID].forkNodeID
       /\ \E r2 \in history_node :
            r2.branchID = branchInfos[r.branchID].source /\ r2.nodeID = r.nodeID

\* -------------------------------------------------------------------- C10
\* C10: when a paged read of an unchanging store has received a response
\* without a token, the histories of its responses, in order, are the history
\* of one read of the same range with a page size above the number of rows.
C10_ReadPagination ==
  pager.pc = "done" =>
    pager.history = ReadRange(history_node, PageBranch, pager.minNodeID, pager.maxNodeID)

\* A paged read of several pages has ended, one of its pages was cut between
\* two rows of one node id, and it returned more than one blob.
C10_Witness ==
  /\ pager.pc = "done"
  /\ pager.pages > 1
  /\ pager.split
  /\ Len(pager.history) > 1

\* -------------------------------------------------------------------- C11
\* C11 (as claimed): in every state, ReadHistoryBranch on a branch whose row
\* has in-progress set returns no node, over any range and page size.
C11_NoReadInProgress ==
  \A row \in InProgressRows(history_tree) :
    \A min \in NodeIDs, max \in ForkNodeIDs, ps \in PageSizes :
      ReadHistoryBranch(history_node, row.branchID, min, max, ps, <<>>, FALSE).history = <<>>

\* -------------------------------------------------------------------- C12
\* C12: in every state, an append with IsNewBranch (node id not below the
\* begin node) either succeeds, and then neither its node key nor its branch
\* had a row before and the tables after it are the tables before it with its
\* node row and its branch row (in-progress unset, the given chain) added, or
\* fails, and then both tables are as they were: the two rows are written
\* together or not at all.
C12_NewBranchAtomic ==
  \A b \in Known, n \in NodeIDs, t \in TreeTxnIDs :
    LET anc == branchInfos[b].ancestors
        r == AppendCall(b, n, t, EventsOf(b, n, t), TRUE)
        nodeRow == [branchID |-> b, nodeID |-> n, txnID |-> t, data |-> EventsOf(b, n, t)]
        treeRow == [branchID |-> b, inProgress |-> FALSE,
                    ancestors |-> serializeAncestors(anc)]
    IN n >= EndOfLastAncestor(anc) =>
         IF r.err = "nil"
         THEN /\ nodeRow \notin history_node
              /\ ~HasRow(history_tree, b)
              /\ r.history_node = history_node \cup {nodeRow}
              /\ r.history_tree = history_tree \cup {treeRow}
         ELSE /\ r.history_node = history_node
              /\ r.history_tree = history_tree
              /\ \/ HasRow(history_tree, b)
                 \/ \E x \in history_node : NodeKey(x) = NodeKey(nodeRow)

\* An append with IsNewBranch has failed on a branch that has a row and a free
\* node key (its node insert went through, its tree insert did not), and no
\* node of that branch is stored.
C12_Witness ==
  /\ last = [op |-> "AppendHistoryNodes", err |-> "ErrDupEntry"]
  /\ \E b \in Known :
       /\ HasRow(history_tree, b)
       /\ \A x \in history_node : x.branchID # b

\* -------------------------------------------------------------------- C13
\* Each entry ends after it begins, and begins where the entry before it ends
\* (so the ends increase along the chain).
WellFormed(chain) ==
  /\ \A i \in 1..Len(chain) : chain[i].endNodeID > chain[i].beginNodeID
  /\ \A i \in 2..Len(chain) :
       /\ chain[i].beginNodeID = chain[i - 1].endNodeID
       /\ chain[i].endNodeID > chain[i - 1].endNodeID

C14_ChainsNameNodes ==
  \A row \in history_tree :
    LET chain == deserializeAncestors(row.ancestors)
    IN \A i \in 1..Len(chain) :
         \E r \in history_node :
           r.branchID = chain[i].branchID /\ r.nodeID < chain[i].endNodeID

\* -------------------------------------------------------------------- C15
\* C15: in every state, every stored node of a branch that has a row has a
\* node id not below the begin node of the row's chain, and every append made
\* with the descriptor of a branch adds no row but one of that branch, at a
\* node id not below the begin node of the descriptor.
C15_NodesAtOrAboveBegin ==
  /\ \A row \in history_tree, r \in history_node :
       r.branchID = row.branchID =>
         r.nodeID >= EndOfLastAncestor(deserializeAncestors(row.ancestors))
  /\ \A b \in Known, n \in NodeIDs, t \in TreeTxnIDs, new \in BOOLEAN :
       \A r \in AppendCall(b, n, t, EventsOf(b, n, t), new).history_node \ history_node :
         /\ r.branchID = b
         /\ r.nodeID >= EndOfLastAncestor(branchInfos[b].ancestors)

\* A committed fork made above node 1 holds a node of its own, and its source
\* holds a node below the fork node.
C15_Witness ==
  /\ last = [op |-> "AppendHistoryNodes", err |-> "nil"]
  /\ \E row \in history_tree :
       /\ ~row.inProgress
       /\ EndOfLastAncestor(deserializeAncestors(row.ancestors)) > 1
       /\ \E r \in history_node : r.branchID = row.branchID
       /\ \E r \in history_node :
            /\ r.branchID = branchInfos[row.branchID].source
            /\ r.nodeID < branchInfos[row.branchID].forkNodeID

\* -------------------------------------------------------------------- C16
\* The chain of a fork as the claim words it.
ExpectedChain(branchID, ancestors, forkNodeID) ==
  LET B == EndOfLastAncestor(ancestors)
      below == SelectSeq(ancestors, LAMBDA e : e.endNodeID < forkNodeID)
      reach == {i \in 1..Len(ancestors) : ancestors[i].endNodeID >= forkNodeID}
      first == CHOOSE i \in reach : \A j \in reach : i <= j
  IN IF B >= forkNodeID
     THEN below \o (IF reach = {} THEN <<>>
                    ELSE <<[ancestors[first] EXCEPT !.endNodeID = forkNodeID]>>)
     ELSE Append(ancestors, [branchID |-> branchID, beginNodeID |-> B,
                             endNodeID |-> forkNodeID])

\* C16: in every state, a fork of any known descriptor at any fork node to a
\* new branch id succeeds, returns the chain the claim describes, and adds to
\* the tree table exactly one row: that of the new branch, in progress, with
\* that chain; and a step that returns from ForkHistoryBranch leaves the node
\* table as it was.
C16_ForkChain ==
  /\ [](\A b \in Known, f \in ForkNodeIDs :
          LET r == ForkHistoryBranch(history_tree, b, branchInfos[b].ancestors,
                                     f, NewBranchID)
              chain == ExpectedChain(b, branchInfos[b].ancestors, f)
              row == [branchID |-> NewBranchID, inProgress |-> TRUE,
                      ancestors |-> serializeAncestors(chain)]
          IN /\ r.err = "nil"
             /\ r.newAncestors = chain
             /\ row \notin history_tree
             /\ r.history_tree = history_tree \cup {row})
  /\ [][last'.op = "ForkHistoryBranch" => history_node' = history_node]_vars

\* A fork has returned, and a row in progress holds a chain of two entries:
\* the chain of its source and the source itself.
C16_Witness ==
  /\ last = [op |-> "ForkHistoryBranch", err |-> "nil"]
  /\ history_node # {}
  /\ \E row \in InProgressRows(history_tree) : Len(row.ancestors) = 2

\* -------------------------------------------------------------------- C17
\* The rows of a branch in the tree table.
RowsOf(treeT, branchID) == {row \in treeT : row.branchID = branchID}

\* C17: in every state, CompleteForkBranch(success = true) of a branch that
\* has a row returns no error, leaves the node table and every other row as
\* they are, and replaces the row of the branch by the same row with
\* in-progress false (so that nothing changes when the row is committed
\* already, and a second call returns what the first returned); of a branch
\* without a row it returns an error and changes neither table.
C17_CommitFork ==
  \A b \in BranchIDs :
    LET r == CompleteForkBranch(history_node, history_tree, b, TRUE)
        rows == RowsOf(history_tree, b)
    IN IF HasRow(history_tree, b)
       THEN /\ r.err = "nil"
            /\ r.history_node = history_node
            /\ Cardinality(rows) = 1
            /\ r.history_tree =
                 (history_tree \ rows) \cup {[row EXCEPT !.inProgress = FALSE] : row \in rows}
            /\ (\A row \in rows : ~row.inProgress) => r.history_tree = history_tree
            /\ CompleteForkBranch(r.history_node, r.history_tree, b, TRUE) = r
       ELSE /\ r.err # "nil"
            /\ r.history_node = history_node
            /\ r.history_tree = history_tree

\* A fork was committed: the call returned no error, the row of a forked
\* branch is not in progress, and another row still is.
C17_Witness ==
  /\ last = [op |-> "CompleteForkBranch", err |-> "nil"]
  /\ history_node # {}
  /\ \E row \in history_tree : ~row.inProgress /\ Len(row.ancestors) > 0
  /\ InProgressRows(history_tree) # {}

\* -------------------------------------------------------------------- C18
\* C18: in every state, CompleteForkBranch(success = false) of a branch that
\* has a row returns no error, removes that row and every node stored under
\* that branch id, and leaves every other row and every node of every other
\* branch as they are; of a branch without a row it returns an error and
\* changes neither table, so the nodes stored under that branch id remain.
C18_AbortFork ==
  \A b \in BranchIDs :
    LET r == CompleteForkBranch(history_node, history_tree, b, FALSE)
    IN IF HasRow(history_tree, b)
       THEN /\ r.err = "nil"
            /\ r.history_tree = {row \in history_tree : row.branchID # b}
            /\ r.history_node = {n \in history_node : n.branchID # b}
       ELSE /\ r.err # "nil"
            /\ r.history_node = history_node
            /\ r.history_tree = history_tree

\* An abort has failed for want of a row, and the nodes stored under a branch
\* id that has no row are still there.
C18_Witness ==
  /\ last = [op |-> "CompleteForkBranch", err |-> "error"]
  /\ \E b \in Known :
       /\ ~HasRow(history_tree, b)
       /\ \E n \in history_node : n.branchID = b

\* -------------------------------------------------------------------- C19
\* C19 (as claimed): the transaction of a DeleteHistoryBranch of a branch that
\* has no row in the tree table returns an error and leaves the node table
\* as it was.
C19_DeleteNeedsRow ==
  [][(DeleteTx /\ ~HasRow(history_tree, del.branchID)) =>
       (last'.err # "nil" /\ history_node' = history_node)]_vars

\* -------------------------------------------------------------------- C20
\* C20 (as claimed): in every state, an append whose node key is stored
\* already (node id not below the begin node) returns ConditionFailedError
\* and changes neither table, with IsNewBranch and without it.
C20_DuplicateIsConditionFailed ==
  \A b \in Known, n \in NodeIDs, t \in TreeTxnIDs, new \in BOOLEAN :
    LET r == AppendCall(b, n, t, EventsOf(b, n, t), new)
    IN (/\ n >= EndOfLastAncestor(branchInfos[b].ancestors)
        /\ \E x \in history_node : NodeKey(x) = <<b, n, t>>) =>
         /\ r.err = "ConditionFailedError"
         /\ r.history_node = history_node
         /\ r.history_tree = history_tree

\* -------------------------------------------------------------------- C21
\* C21 (as claimed): a ReadHistoryBranch whose select fails with an error
\* other than no-rows returns an error.
C21_ReadFaultIsError ==
  [][ReadBranchFault => last'.err # "nil"]_vars

\* -------------------------------------------------------------------- C22
\* C22 (as claimed): a DeleteHistoryBranch whose branch enumeration fails with
\* an error other than no-rows returns an error at once: it does not go on to
\* its transaction, and no row of either table is deleted.
C22_EnumerationFaultFailsDelete ==
  [][DeleteBranchReadFault =>
       /\ last'.op = "DeleteHistoryBranch" /\ last'.err # "nil"
       /\ del'.pc = "idle"
       /\ history_node' = history_node /\ history_tree' = history_tree]_vars

\* -------------------------------------------------------------------- C23
\* The descriptors the callers hold of the branches of a set of rows.
DescriptorsOf(rows) ==
  {[branchID |-> row.branchID, ancestors |-> branchInfos[row.branchID].ancestors] :
     row \in rows}

\* C23 (as claimed): in every state, GetHistoryTree returns as Branches the
\* descriptors (branch id and chain) of the rows that are not in progress, and
\* as ForkingInProgressBranches the ids of the rows that are.
C23_TreeListsCommitted ==
  LET rsp == GetHistoryTree(history_tree, FALSE)
  IN /\ rsp.Branches = DescriptorsOf(history_tree \ InProgressRows(history_tree))
     /\ rsp.ForkingInProgressBranches = {row.branchID : row \in InProgressRows(history_tree)}

\* C23 (amended): in every state, GetHistoryTree returns as Branches the
\* descriptors of all rows, in progress or not, and as
\* ForkingInProgressBranches the ids of the rows in progress; both are empty
\* when the tree has no row.
C23_TreeListsAllRows ==
  LET rsp == GetHistoryTree(history_tree, FALSE)
  IN /\ rsp.Branches = DescriptorsOf(history_tree)
     /\ rsp.ForkingInProgressBranches = {row.branchID : row \in InProgressRows(history_tree)}
     /\ history_tree = {} =>
          rsp.Branches = {} /\ rsp.ForkingInProgressBranches = {}

\* A DeleteHistoryBranch has read the tree and was refused: the tree holds a
\* row in progress with a chain, and a row that is not in progress.
C23_Witness ==
  /\ last = [op |-> "DeleteHistoryBranch", err |-> "ConditionFailedError"]
  /\ \E row \in InProgressRows(history_tree) : Len(row.ancestors) > 0
  /\ \E row \in history_tree : ~row.inProgress

\* -------------------------------------------------------------------- C24
\* C24 (as claimed): in every state, after ReplaceIntoMaps with any row the
\* select of the row's execution returns for the row's key exactly one row,
\* and it is the row given (its data and data_encoding), whether the key was
\* stored before or not.
C24_ReplaceReplaces ==
  \A row \in MapsRows :
    LET t == ReplaceIntoMaps(execution_maps, row)
    IN {r \in SelectFromMaps(t, row.run_id) : r.key = row.key} = {row}

\* -------------------------------------------------------------------- C25
\* The entry of the plan at which the walk stops: the last one whose branch
\* has a recorded maximum referenced end node; 0 when there is none.
PlanStop(brsToDelete, validBRsMaxEndNode) ==
  LET hit == {i \in 1..Len(brsToDelete) :
                brsToDelete[i].branchID \in DOMAIN validBRsMaxEndNode}
  IN IF hit = {} THEN 0 ELSE CHOOSE i \in hit : \A j \in hit : j <= i

\* Node row r is deleted by the walk as the claim words it: it belongs to the
\* entry the walk stops at and is at or above the recorded maximum, or to an
\* entry after it in the plan and is at or above that entry's begin node.
DeletedByWalk(brsToDelete, validBRsMaxEndNode, r) ==
  LET stop == PlanStop(brsToDelete, validBRsMaxEndNode)
  IN \E i \in 1..Len(brsToDelete) :
       /\ r.branchID = brsToDelete[i].branchID
       /\ \/ i > stop /\ r.nodeID >= brsToDelete[i].beginNodeID
          \/ i = stop /\ r.nodeID >= validBRsMaxEndNode[brsToDelete[i].branchID]

\* C25: the transaction of a DeleteHistoryBranch removes exactly the node
\* rows the walk over its plan names, and so no node of a branch outside the
\* plan, no node below the recorded maximum of the entry it stops at, and no
\* node of an entry older than that one.
C25_WalkTouchesOnlyPlan ==
  [][DeleteTx =>
       /\ history_node' =
            {r \in history_node :
               ~DeletedByWalk(del.brsToDelete, del.validBRsMaxEndNode, r)}
       /\ \A r \in history_node \ history_node' :
            \E i \in 1..Len(del.brsToDelete) : del.brsToDelete[i].branchID = r.branchID]_vars

\* A delete is at its transaction with a plan of two entries whose walk stops
\* at the ancestor: the ancestor holds a node below the recorded maximum and
\* a node at or above it.
C25_Witness ==
  /\ del.pc = "tx"
  /\ Len(del.brsToDelete) = 2
  /\ PlanStop(del.brsToDelete, del.validBRsMaxEndNode) = 1
  /\ LET b == del.brsToDelete[1].branchID
         m == del.validBRsMaxEndNode[b]
     IN /\ \E r \in history_node : r.branchID = b /\ r.nodeID < m
        /\ \E r \in history_node : r.branchID = b /\ r.nodeID >= m

\* -------------------------------------------------------------------- C26
\* C26 (as claimed): when a DeleteHistoryBranch that ran alone removes the
\* last row of the tree, every row before it having been removed by a
\* DeleteHistoryBranch, no node row remains.
C26_GarbageCollectionComplete ==
  [][(DeleteTx /\ DeleteRanAlone /\ history_tree' = {}) => history_node' = {}]_vars

\* -------------------------------------------------------------------- C27
\* C27: the transaction of a DeleteHistoryBranch during whose window a fork
\* inserted a row returns no error and spares no node for the rows inserted
\* since its read: every node its walk names is removed, also when a chain
\* of a remaining row names it.
C27_DeleteForkHazard ==
  [][(DeleteTx /\ del.inserted = "fork") =>
       /\ last' = [op |-> "DeleteHistoryBranch", err |-> "nil"]
       /\ \A r \in history_node :
            (/\ Referenced(history_tree', r)
             /\ DeletedByWalk(del.brsToDelete, del.validBRsMaxEndNode, r))
              => r \notin history_node']_vars

\* The hazard: branch 1 has a row and is being deleted, and since the
\* delete's read branch 2 was forked from it (the only fork there has been)
\* and committed; the chain of branch 2 names a stored node of branch 1 that
\* the transaction, which is about to run, removes.
C27_Witness ==
  /\ del.pc = "tx" /\ del.branchID = 1 /\ del.inserted = "fork"
  /\ Len(branchInfos) = 2 /\ branchInfos[2].source = 1
  /\ HasRow(history_tree, 1)
  /\ \A r \in history_node : r.branchID # 2
  /\ \E row \in history_tree :
       /\ row.branchID = 2 /\ ~row.inProgress
       /\ \E r \in history_node :
            /\ r.branchID = 1 /\ Referenced({row}, r)
            /\ r \notin DeleteHistoryBranchTx(history_node, history_tree, del.branchID,
                                               del.brsToDelete,
                                               del.validBRsMaxEndNode).history_node

\* -------------------------------------------------------------------- C28
\* Row i is the first row of its node id in rows.
FirstOfNode(rows, i) == \A k \in 1..(i - 1) : rows[k].nodeID # rows[i].nodeID

\* The order of rows is violated as the claim words it: a node id decreases
\* from one row to the next, or a row's transaction id is not below that of
\* the first row of its node id.
OrderViolated(rows) ==
  \E i \in 2..Len(rows) :
    \/ rows[i].nodeID < rows[i - 1].nodeID
    \/ \E j \in 1..(i - 1) :
         /\ rows[j].nodeID = rows[i].nodeID /\ FirstOfNode(rows, j)
         /\ rows[i].txnID >= rows[j].txnID

RECURSIVE FirstBlobs(_, _)
\* The blobs of the first rows of each node id among the first i rows.
FirstBlobs(rows, i) ==
  IF i = 0 THEN <<>>
  ELSE FirstBlobs(rows, i - 1)
       \o (IF FirstOfNode(rows, i) THEN <<rows[i].data>> ELSE <<>>)

\* C28: a read that has returned failed with InternalServiceError and
\* returned no history when the order of the rows selected was violated;
\* otherwise it returned no error and one blob for each node id, that of the
\* first row of the node id, rows of the same node id and a smaller
\* transaction id being skipped.
C28_OrderingChecked ==
  reader.pc = "returned" =>
    IF OrderViolated(reader.rows)
    THEN last.err = "InternalServiceError" /\ reader.history = <<>>
    ELSE last.err = "nil" /\ reader.history = FirstBlobs(reader.rows, Len(reader.rows))

\* A read has failed on three rows: the second was skipped (same node id,
\* smaller transaction id), the third has a smaller node id.
C28_Witness ==
  /\ reader.pc = "returned"
  /\ last = [op |-> "ReadHistoryBranch", err |-> "InternalServiceError"]
  /\ Len(reader.rows) = 3
  /\ reader.rows[2].nodeID = reader.rows[1].nodeID
  /\ reader.rows[2].txnID < reader.rows[1].txnID
  /\ reader.rows[3].nodeID < reader.rows[2].nodeID

\* -------------------------------------------------------------------- C29
\* C29: in every state, a fork of a known descriptor with a chain, made
\* exactly at its begin node, succeeds with the chain of the source as the
\* chain of the new branch, returned and stored, and that chain has no entry
\* for the source branch.
C29_ForkAtBeginIsSibling ==
  \A b \in Known :
    LET anc == branchInfos[b].ancestors
        r == ForkHistoryBranch(history_tree, b, anc, EndOfLastAncestor(anc), NewBranchID)
    IN Len(anc) > 0 =>
         /\ r.err = "nil"
         /\ r.newAncestors = anc
         /\ \A i \in 1..Len(r.newAncestors) : r.newAncestors[i].branchID # b
         /\ \E row \in r.history_tree \ history_tree :
              /\ row.branchID = NewBranchID
              /\ deserializeAncestors(row.ancestors) = anc

\* A fork has returned, and a row in progress is that of a branch forked at
\* the begin node of a source with a chain: it has the chain of its source.
C29_Witness ==
  /\ last = [op |-> "ForkHistoryBranch", err |-> "nil"]
  /\ \E row \in InProgressRows(history_tree) :
       LET info == branchInfos[row.branchID]
       IN /\ info.source # 0
          /\ Len(branchInfos[info.source].ancestors) > 0
          /\ info.forkNodeID = EndOfLastAncestor(branchInfos[info.source].ancestors)
          /\ info.forkNodeID > 1
          /\ deserializeAncestors(row.ancestors) = branchInfos[info.source].ancestors

\* -------------------------------------------------------------------- C30
\* The error of the read part of a DeleteHistoryBranch of branch b on a tree.
DeleteReadErr(treeT, b) ==
  DeleteHistoryBranchRead(treeT, b, branchInfos[b].ancestors, FALSE).err

\* C30: in every state, a DeleteHistoryBranch of a known branch returns
\* ConditionFailedError only if some row is in progress; and when one row is
\* in progress, CompleteForkBranch of that branch, with success or without,
\* returns no error and leaves a tree on which no DeleteHistoryBranch
\* returns ConditionFailedError.
C30_RefusedOnlyForForks ==
  /\ \A b \in Known :
       DeleteReadErr(history_tree, b) = "ConditionFailedError"
         => InProgressRows(history_tree) # {}
  /\ \A row \in InProgressRows(history_tree), success \in BOOLEAN :
       LET c == CompleteForkBranch(history_node, history_tree, row.branchID, success)
       IN InProgressRows(history_tree) = {row} =>
            /\ c.err = "nil"
            /\ \A b \in Known :
                 /\ DeleteReadErr(history_tree, b) = "ConditionFailedError"
                 /\ DeleteReadErr(c.history_tree, b) # "ConditionFailedError"

\* A DeleteHistoryBranch has just been refused because of the one fork in
\* progress, a branch with a chain and a node of its own; the tree holds a
\* committed row too.
C30_Witness ==
  /\ last = [op |-> "DeleteHistoryBranch", err |-> "ConditionFailedError"]
  /\ del.pc = "idle"
  /\ Cardinality(InProgressRows(history_tree)) = 1
  /\ Cardinality(history_tree) > 1
  /\ \E row \in InProgressRows(history_tree) :
       /\ Len(row.ancestors) > 0
       /\ \E r \in history_node : r.branchID = row.branchID

\* -------------------------------------------------------------------- C31
\* C31 (as claimed): in every step, a row that appears is in progress only if
\* the call that returns is a ForkHistoryBranch and not in progress only if
\* it is an AppendHistoryNodes; a row that is not in progress is not in
\* progress after the step if it is still there; and a row in progress stays
\* as it is unless the call that returns is a CompleteForkBranch without
\* error, which leaves it not in progress or removes it.
C31_FlagMonotonic ==
  [][\A b \in BranchIDs :
       LET old == RowsOf(history_tree, b)
           new == RowsOf(history_tree', b)
       IN /\ (old = {} /\ new # {}) =>
               \A row \in new :
                 last'.op = IF row.inProgress THEN "ForkHistoryBranch"
                            ELSE "AppendHistoryNodes"
          /\ \A row \in old, row2 \in new : ~row.inProgress => ~row2.inProgress
          /\ \A row \in old :
               row.inProgress =>
                 \/ new = old
                 \/ /\ last' = [op |-> "CompleteForkBranch", err |-> "nil"]
                    /\ new \in {{}, {[row EXCEPT !.inProgress = FALSE]}}]_vars

\* -------------------------------------------------------------------- C32
\* C32: in every state, a fork of a known descriptor whose chain is well
\* formed, at any fork node from 1 up, succeeds, and the begin node of the
\* chain it returns, which is the chain it stores, is the fork node.
C32_ForkBeginsAtForkNode ==
  \A b \in Known, f \in ForkNodeIDs :
    LET anc == branchInfos[b].ancestors
        r == ForkHistoryBranch(history_tree, b, anc, f, NewBranchID)
    IN WellFormed(anc) =>
         /\ r.err = "nil"
         /\ EndOfLastAncestor(r.newAncestors) = f
         /\ \A row \in r.history_tree \ history_tree :
              EndOfLastAncestor(deserializeAncestors(row.ancestors)) = f

\* A fork has returned; a row in progress is that of a branch forked below
\* the begin node of a source with a well-formed chain (the cut falls inside
\* an ancestor of the source), and another branch was forked above the begin
\* node of its source.
C32_Witness ==
  /\ last = [op |-> "ForkHistoryBranch", err |-> "nil"]
  /\ \E row \in InProgressRows(history_tree) :
       LET info == branchInfos[row.branchID]
       IN /\ info.source # 0
          /\ branchInfos[info.source].ancestors # <<>>
          /\ WellFormed(branchInfos[info.source].ancestors)
          /\ info.forkNodeID < EndOfLastAncestor(branchInfos[info.source].ancestors)
          /\ EndOfLastAncestor(deserializeAncestors(row.ancestors)) = info.forkNodeID
  /\ \E b \in Known :
       /\ branchInfos[b].source # 0
       /\ branchInfos[b].forkNodeID
            > EndOfLastAncestor(branchInfos[branchInfos[b].source].ancestors)

\* -------------------------------------------------------------------- C33
\* C33 (as claimed): in every state, every stored node is of a branch that
\* has a row, or lies in a range that a chain of some row names.
C33_NoOrphanNodes ==
  \A r \in history_node :
    HasRow(history_tree, r.branchID) \/ Referenced(history_tree, r)

\* -------------------------------------------------------------------- C34
\* What a branch made by a fork inherits: its logical history below its fork
\* node, read through the chain of its row.
InheritedPrefix(nodeT, row) ==
  LogicalHistoryBelow(nodeT, row.branchID, deserializeAncestors(row.ancestors),
                      branchInfos[row.branchID].forkNodeID)

\* Node nodeID of branch branchID lies in a range of the chain.
InRangeOf(chain, branchID, nodeID) ==
  \E i \in 1..Len(chain) :
    /\ chain[i].branchID = branchID
    /\ chain[i].beginNodeID <= nodeID
    /\ nodeID < chain[i].endNodeID

\* C34 (as claimed): in every state, no successful append, on any branch,
\* changes what a committed branch made by a fork inherits.
C34_PrefixStable ==
  \A row \in history_tree :
    (~row.inProgress /\ branchInfos[row.branchID].source # 0) =>
      \A b \in Known, n \in NodeIDs, t \in TxnIDs, d \in Blobs, new \in BOOLEAN :
        LET r == AppendCall(b, n, t, d, new)
        IN r.err = "nil" =>
             InheritedPrefix(r.history_node, row) = InheritedPrefix(history_node, row)

\* C34 (amended): in every state, no successful append changes what a
\* committed branch made by a fork inherits, unless it writes a node of a
\* branch of the chain inside the range the chain names for it; appends to
\* the source at or above the fork node and appends to the new branch are
\* among those that change nothing.
C34_PrefixStableOutsideRanges ==
  \A row \in history_tree :
    (~row.inProgress /\ branchInfos[row.branchID].source # 0) =>
      \A b \in Known, n \in NodeIDs, t \in TxnIDs, d \in Blobs, new \in BOOLEAN :
        LET r == AppendCall(b, n, t, d, new)
        IN (r.err = "nil" /\ ~InRangeOf(deserializeAncestors(row.ancestors), b, n)) =>
             InheritedPrefix(r.history_node, row) = InheritedPrefix(history_node, row)

\* An append has succeeded after a fork was committed: the source holds a
\* node at or above the fork node, and the committed branch inherits a node.
C34_Witness ==
  /\ last = [op |-> "AppendHistoryNodes", err |-> "nil"]
  /\ \E row \in history_tree :
       LET info == branchInfos[row.branchID]
       IN /\ ~row.inProgress
          /\ info.source # 0
          /\ InheritedPrefix(history_node, row) # <<>>
          /\ \E x \in history_node :
               x.branchID = info.source /\ x.nodeID >= info.forkNodeID

\* -------------------------------------------------------------------- C35
\* The minNodeID the select of a request is made with.
EffectiveMin(minNodeID, nextPageToken) ==
  IF Len(nextPageToken) > 0
  THEN deserializePageToken(nextPageToken).offset + 1 ELSE minNodeID

\* The tokens a request may carry: none, or that of a node id.
PageTokens == {<<>>} \cup {serializePageToken(n) : n \in 0..MaxPageNodeID}

\* Every response with a token, to any request on the store, has a history
\* and a token node id that is above (strict) or not below (not strict) the
\* effective minNodeID of the request; the request that carries this token
\* has an effective minNodeID above that of the request.
TokenProgress(strict) ==
  \A min \in PageNodeIDs, max \in 1..(MaxPageNodeID + 1), ps \in PageSizes,
     tok \in PageTokens :
    LET r == ReadHistoryBranch(history_node, PageBranch, min, max, ps, tok, FALSE)
        from == EffectiveMin(min, tok)
        at == deserializePageToken(r.nextPageToken).offset
    IN r.nextPageToken # <<>> =>
         /\ r.err = "nil"
         /\ r.history # <<>>
         /\ IF strict THEN at > from ELSE at >= from
         /\ EffectiveMin(min, r.nextPageToken) > from

\* A paged read that follows its tokens ends with a response without a
\* token, after no more calls than there are node ids, and one.
PagingEnds ==
  /\ [](pager.pc # "idle" => pager.pages <= MaxPageNodeID + 1)
  /\ (pager.pc = "paging" ~> pager.pc = "done")

\* C35 (as claimed): every response with a token has a history and a token
\* node id above the effective minNodeID of its request, and a paged read
\* of an unchanging store ends.
C35_TokenAboveMin == []TokenProgress(TRUE) /\ PagingEnds

\* C35 (amended): every response with a token has a history and a token
\* node id not below the effective minNodeID of its request, so that the
\* effective minNodeID of the next request is above it, and a paged read of
\* an unchanging store ends.
C35_TokenAtOrAboveMin == []TokenProgress(FALSE) /\ PagingEnds

\* A paged read of three pages or more has ended; its first response read
\* the node its minNodeID names and no other, so its token named that node.
C35_Witness ==
  /\ pager.pc = "done"
  /\ pager.pages > 2
  /\ pager.pageSize = 1
  /\ \E r \in history_node : r.nodeID = pager.minNodeID
  /\ pager.maxNodeID > pager.minNodeID

====
